---- MODULE Spec2Model ----
\* Model of esindex_exporter (src/main.go, the windowed version, lines 173-416):
\* startup validation, the ticker loop that checks today's index and sets the
\* gauge elasticsearch_indices_exists, and the concurrent /metrics scrape.
EXTENDS Integers, FiniteSets, Sequences, TLC

\* ---------------------------------------------------------------- bounds
\* An abstract day has DayMinutes minutes, each of SubMin clock instants
\* (the sub-minute part that Format("15:04") drops); days are 0..MaxDay.
DayMinutes == 3
SubMin == 2
MaxDay == 1

\* ---------------------------------------------------------------- inputs
\* HH:MM strings are written as their minute number; BadTimeStr is a string
\* time.Parse("15:04", _) rejects.
BadTimeStr == -1
TimeStrs == (0 .. (DayMinutes - 1)) \cup {BadTimeStr}
URIs == {"", "http://es:9200", "http://[bad"}
Prefixes == {"", "logs-"}
QueryIntervals == {-1, 0, 1}
TimeoutStrs == {"5s", "abc"}

\* HTTP statuses of the HEAD /<index> response; a transport error has none.
Statuses == {200, 401, 404, 500}
NoResp == [err |-> FALSE, status |-> 0]
Responses == [err : {FALSE}, status : Statuses] \cup {[err |-> TRUE, status |-> 0]}

Times == [day : 0 .. MaxDay, tod : 0 .. (DayMinutes * SubMin - 1)]
TimeLeq(a, b) == a.day < b.day \/ (a.day = b.day /\ a.tod <= b.tod)

\* Value reported for a label that has no entry in the gauge vector.
Absent == -1

VARIABLES
    esURI, esIndexPrefix, queryInterval, startTimeStr, endTimeStr, timeoutStr,
    startTime, endTime,
    pc, contacted, serverStarted, tickerCreated,
    currentTime, currentParsedTime, indexName, resp, pre,
    gauge, scraped

config == <<esURI, esIndexPrefix, queryInterval, startTimeStr, endTimeStr, timeoutStr>>
parsed == <<startTime, endTime>>
procs == <<contacted, serverStarted, tickerCreated>>
tick == <<currentTime, currentParsedTime, indexName, resp, pre>>
vars == <<config, parsed, pc, procs, tick, gauge, scraped>>

\* ---------------------------------------------------------------- helpers
\* parseTime: time.Parse("15:04", s); the result is the minute of the day.
parseTime(timeStr) ==
    IF timeStr \in 0 .. (DayMinutes - 1)
    THEN [err |-> FALSE, t |-> timeStr]
    ELSE [err |-> TRUE, t |-> 0]

\* currentTime.Format("15:04"): the seconds are dropped.
Format1504(t) == t.tod \div SubMin

\* url.Parse and time.ParseDuration succeed on the well-formed inputs only.
urlParseOk(uri) == uri # "http://[bad"
parseDurationOk(s) == s = "5s"

\* indexName := *esIndexPrefix + currentTime.Format("2006.01.02")
ResolveIndexName(prefix, t) == <<prefix, t.day>>

\* checkIndexExists: an error only when req.Do fails; 404 is "absent";
\* every other status is reported as "exists".
checkIndexExists(r) ==
    IF r.err THEN [exists |-> FALSE, err |-> TRUE]
    ELSE IF r.status = 404 THEN [exists |-> FALSE, err |-> FALSE]
    ELSE [exists |-> TRUE, err |-> FALSE]

\* Variants of the window test: end excluded; overnight wrap-around.
InWindowHalfOpen(now, start, end) == ~(now < start \/ now >= end)
InWindowWrap(now, start, end) ==
    IF end < start THEN (now >= start \/ now <= end)
    ELSE ~(now < start \/ now > end)
\* The window test of the tick: !(now.Before(startTime) || now.After(endTime)).
InWindow(now, start, end) == ~(now < start \/ now > end)

\* Variant of the value choice: existence ignored.
DecideValueAlwaysOne(inWindow, indexExists) == 1
\* The value the tick sets once the check has returned without error.
DecideValue(inWindow, indexExists) ==
    IF ~inWindow THEN 1 ELSE IF indexExists THEN 1 ELSE 0

\* Variants of the error branch: error ignored; error fatal.
AfterCheckIgnoreErr(res) == "withLabel"
AfterCheckFatal(res) == IF res.err THEN "exited" ELSE "withLabel"
\* "if err != nil { log.Printf(...); continue }": back to waiting for the
\* ticker, otherwise on to the gauge write.
AfterCheck(res) == IF res.err THEN "Idle" ELSE "withLabel"

GaugeAt(g, k) == IF k \in DOMAIN g THEN g[k] ELSE Absent

\* GaugeVec.WithLabelValues(k): the entry is created with value 0 if new.
GaugeWithLabelValues(g, k) ==
    IF k \in DOMAIN g THEN g ELSE [x \in DOMAIN g \cup {k} |-> IF x = k THEN 0 ELSE g[x]]

\* Variants of Gauge.Set: Add(v) instead of Set(v); dropping the other labels.
GaugeSetAdd(g, k, v) == [g EXCEPT ![k] = g[k] + v]
GaugeSetEvict(g, k, v) == [x \in {k} |-> v]
\* Gauge.Set(v) on the entry of k.
GaugeSet(g, k, v) == [g EXCEPT ![k] = v]

\* ---------------------------------------------------------------- Init
Init ==
    /\ esURI \in URIs
    /\ esIndexPrefix \in Prefixes
    /\ queryInterval \in QueryIntervals
    /\ startTimeStr \in TimeStrs
    /\ endTimeStr \in TimeStrs
    /\ timeoutStr \in TimeoutStrs
    /\ startTime = 0
    /\ endTime = 0
    /\ pc = "validate"
    /\ contacted = FALSE
    /\ serverStarted = FALSE
    /\ tickerCreated = FALSE
    /\ currentTime = [day |-> 0, tod |-> 0]
    /\ currentParsedTime = 0
    /\ indexName = <<"", 0>>
    /\ resp = NoResp
    /\ pre = Absent
    /\ gauge = [k \in {} |-> 0]
    /\ scraped = {}

\* ---------------------------------------------------------------- startup
\* main, lines 229-233: the required-parameter test.
ValidateParams ==
    /\ pc = "validate"
    /\ pc' = IF esURI = "" \/ esIndexPrefix = "" \/ queryInterval = 0
             THEN "exited" ELSE "parse"
    /\ UNCHANGED <<config, parsed, procs, tick, gauge, scraped>>

\* main, lines 235-260: start/end time, URI and timeout parsing, each fatal.
ParseConfig ==
    /\ pc = "parse"
    /\ LET s == parseTime(startTimeStr)
           e == parseTime(endTimeStr)
       IN IF s.err
          THEN pc' = "exited" /\ UNCHANGED parsed
          ELSE IF e.err
          THEN pc' = "exited" /\ startTime' = s.t /\ UNCHANGED endTime
          ELSE /\ startTime' = s.t
               /\ endTime' = e.t
               /\ pc' = IF urlParseOk(esURI) /\ parseDurationOk(timeoutStr)
                        THEN "ping" ELSE "exited"
    /\ UNCHANGED <<config, procs, tick, gauge, scraped>>

\* main, lines 287-303: client.Ping(); an error or an error response is fatal.
Ping ==
    /\ pc = "ping"
    /\ contacted' = TRUE
    /\ \E ok \in BOOLEAN : pc' = IF ok THEN "serve" ELSE "exited"
    /\ UNCHANGED <<config, parsed, serverStarted, tickerCreated, tick, gauge, scraped>>

\* main, line 306: go startMetricsServer(*listenPort).
StartMetricsServer ==
    /\ pc = "serve"
    /\ serverStarted' = TRUE
    /\ pc' = "newTicker"
    /\ UNCHANGED <<config, parsed, contacted, tickerCreated, tick, gauge, scraped>>

\* main, line 308: time.NewTicker panics on a non-positive interval.
NewTicker ==
    /\ pc = "newTicker"
    /\ IF queryInterval <= 0
       THEN pc' = "panicked" /\ UNCHANGED tickerCreated
       ELSE pc' = "Idle" /\ tickerCreated' = TRUE
    /\ UNCHANGED <<config, parsed, contacted, serverStarted, tick, gauge, scraped>>

\* ---------------------------------------------------------------- the loop
\* case <-ticker.C, lines 313-324: read the clock, truncate it to HH:MM,
\* resolve today's index name. Wall-clock time never goes back.
TickerFire ==
    /\ pc = "Idle"
    /\ \E t \in Times :
         /\ TimeLeq(currentTime, t)
         /\ currentTime' = t
         /\ LET p == parseTime(Format1504(t))
                n == ResolveIndexName(esIndexPrefix, t)
            IN IF p.err
               THEN pc' = "Idle" /\ UNCHANGED <<currentParsedTime, indexName, pre>>
               ELSE /\ currentParsedTime' = p.t
                    /\ indexName' = n
                    /\ pre' = GaugeAt(gauge, n)
                    /\ pc' = "check"
    /\ resp' = NoResp
    /\ UNCHANGED <<config, parsed, procs, gauge, scraped>>

\* lines 327-331: checkIndexExists returns; on error log and continue.
CheckReturns ==
    /\ pc = "check"
    /\ \E r \in Responses :
         /\ resp' = r
         /\ pc' = AfterCheck(checkIndexExists(r))
    /\ UNCHANGED <<config, parsed, procs, currentTime, currentParsedTime, indexName, pre, gauge, scraped>>

\* lines 335/340/343, first half: indexExistsGauge.WithLabelValues(indexName).
WithLabelValues ==
    /\ pc = "withLabel"
    /\ gauge' = GaugeWithLabelValues(gauge, indexName)
    /\ pc' = "set"
    /\ UNCHANGED <<config, parsed, procs, tick, scraped>>

\* lines 333-345, second half: .Set(1) or .Set(0) by window and existence.
Set ==
    /\ pc = "set"
    /\ gauge' = GaugeSet(gauge, indexName,
                    DecideValue(InWindow(currentParsedTime, startTime, endTime),
                                checkIndexExists(resp).exists))
    /\ pc' = "Idle"
    /\ UNCHANGED <<config, parsed, procs, tick, scraped>>

\* promhttp.Handler serving /metrics: reads the values of all entries.
Scrape ==
    /\ serverStarted
    /\ pc \notin {"exited", "panicked"}
    /\ scraped' = {gauge[k] : k \in DOMAIN gauge}
    /\ UNCHANGED <<config, parsed, pc, procs, tick, gauge>>

Next ==
    \/ ValidateParams
    \/ ParseConfig
    \/ Ping
    \/ StartMetricsServer
    \/ NewTicker
    \/ TickerFire
    \/ CheckReturns
    \/ WithLabelValues
    \/ Set
    \/ Scrape

Spec == Init /\ [][Next]_vars

\* The ticker keeps firing and every started step of a tick completes.
LiveSpec ==
    /\ Spec
    /\ WF_vars(TickerFire)
    /\ WF_vars(CheckReturns)
    /\ WF_vars(WithLabelValues)
    /\ WF_vars(Set)

\* ---------------------------------------------------------------- claims
\* A tick has run to its end: the loop is waiting again and the last check
\* returned resp.
TickDone == pc = "Idle" /\ resp # NoResp
TickInWindow == InWindow(currentParsedTime, startTime, endTime)
TickMinute == currentTime.tod \div SubMin
LoopStates == {"Idle", "check", "withLabel", "set"}

\* C1 (as stated): after every tick whose time the window test puts outside
\* the window, whatever the check returned (exists, absent or an error), the
\* gauge entry of the tick's index name is 1.
C1_OutsideOverrideAnyOutcome ==
    (TickDone /\ ~TickInWindow) => GaugeAt(gauge, indexName) = 1

\* C2: after every tick inside the window whose check succeeded (status 200 or
\* 404), the gauge entry of the tick's index name is 1 if the index exists
\* (200) and 0 if it does not (404).
C2_InsideFidelity ==
    (TickDone /\ TickInWindow /\ ~resp.err /\ resp.status \in {200, 404})
        => GaugeAt(gauge, indexName) = (IF resp.status = 200 THEN 1 ELSE 0)

C2_Witness ==
    /\ TickDone /\ TickInWindow /\ ~resp.err
    /\ resp.status = 404 /\ pre = 1 /\ GaugeAt(gauge, indexName) = 0

\* C3: a tick inside the window whose check returns an error writes nothing:
\* the step that receives the error leaves the whole gauge as it was, and after
\* the tick the entry of the tick's index name is what it was before the tick
\* (same value, or still absent).
C3_FailureWithholding ==
    /\ []((TickDone /\ TickInWindow /\ resp.err) => GaugeAt(gauge, indexName) = pre)
    /\ [][(pc = "check" /\ resp'.err /\ TickInWindow) => (gauge' = gauge /\ pc' = "Idle")]_vars

C3_Witness ==
    /\ TickDone /\ TickInWindow /\ resp.err
    /\ pre = 1 /\ GaugeAt(gauge, indexName) = 1

\* C4 (as stated): with start < end, a tick that finds the index absent
\* publishes 0 exactly when start <= minute of the tick < end (half-open
\* window: a tick at the end minute is outside and publishes 1).
C4_HalfOpenWindow ==
    (TickDone /\ startTime < endTime /\ ~resp.err /\ resp.status = 404)
        => (GaugeAt(gauge, indexName) = 0
              <=> (startTime <= TickMinute /\ TickMinute < endTime))

\* C4 (amended): with start < end, a tick that finds the index absent
\* publishes 0 exactly when start <= minute of the tick <= end (closed window:
\* ticks at the start minute and at the end minute are both inside), the
\* seconds of the tick time being ignored.
C4_ClosedWindow ==
    (TickDone /\ startTime < endTime /\ ~resp.err /\ resp.status = 404)
        => (GaugeAt(gauge, indexName) = (IF startTime <= TickMinute /\ TickMinute <= endTime
                                         THEN 0 ELSE 1))

C4_Witness ==
    /\ TickDone /\ startTime < endTime /\ ~resp.err /\ resp.status = 404
    /\ currentTime.tod = endTime * SubMin + 1
    /\ GaugeAt(gauge, indexName) = 0

\* C5 (as stated): a check that ends in a transport error or in a status that
\* is neither success (200) nor not-found (404) is a failed check: the tick
\* goes back to waiting without touching the gauge entry.
C5_UnexpectedStatusIsFailure ==
    (resp # NoResp /\ resp.status \notin {200, 404})
        => (pc = "Idle" /\ GaugeAt(gauge, indexName) = pre)

C7_GaugeRange ==
    /\ \A k \in DOMAIN gauge : gauge[k] \in {0, 1}
    /\ scraped \subseteq {0, 1}

\* A scrape between WithLabelValues and Set saw the fresh entry at 0 while
\* the tick is about to set it to 1.
C7_Witness ==
    /\ pc = "set" /\ pre = Absent /\ DOMAIN gauge = {indexName}
    /\ scraped = {0}
    /\ DecideValue(TickInWindow, checkIndexExists(resp).exists) = 1

\* C8 (as stated): a configuration whose query interval is not > 0 never gets
\* past validation: the process is still validating or has exited, and it has
\* not contacted the store, started the metrics server or created the ticker.
C8_IntervalRejected ==
    queryInterval <= 0
        => (pc \in {"validate", "exited"} /\ ~contacted /\ ~serverStarted /\ ~tickerCreated)

\* C9 (as stated): with end <= start every tick whose check returned without
\* error publishes 1.
C9_EmptyWindowLeq ==
    (TickDone /\ endTime <= startTime /\ ~resp.err) => GaugeAt(gauge, indexName) = 1

\* C9 (amended): with end < start (strictly) every tick whose check returned
\* without error publishes 1, whether or not the index exists.
C9_EmptyWindowLt ==
    (TickDone /\ endTime < startTime /\ ~resp.err) => GaugeAt(gauge, indexName) = 1

C9_Witness ==
    /\ TickDone /\ endTime < startTime /\ resp.status = 404
    /\ TickMinute >= startTime /\ GaugeAt(gauge, indexName) = 1

\* C10: every step keeps all existing gauge keys, changes or creates no entry
\* other than the one of the index name the running tick queried, and that
\* name is the prefix followed by the date of the tick.
C10_TickFrame ==
    [][/\ \A k \in DOMAIN gauge :
             k \in DOMAIN gauge' /\ (k # indexName => gauge'[k] = gauge[k])
       /\ \A k \in DOMAIN gauge' \ DOMAIN gauge : k = indexName
       /\ gauge' # gauge =>
             (indexName' = indexName /\ indexName = <<esIndexPrefix, currentTime.day>>)]_vars

\* Yesterday's entry is still there with its last value after today's tick
\* wrote a different one.
C10_Witness ==
    /\ TickDone /\ currentTime.day = 1
    /\ <<esIndexPrefix, 0>> \in DOMAIN gauge /\ gauge[<<esIndexPrefix, 0>>] = 0
    /\ GaugeAt(gauge, indexName) = 1 /\ pre = Absent

====
